---- MODULE Spec2Model ----
(***************************************************************************)
(* Model of inerg-assessment-project: the `load-data` command (main.py     *)
(* load_data) that reads a spreadsheet, groups it by "API WELL  NUMBER",   *)
(* sums OIL/GAS/BRINE, empties the annual_production_data table and        *)
(* inserts the totals; and the GET /data lookup (main.py get_annual_data). *)
(*                                                                         *)
(* Text is modelled as a sequence of one-character strings, so that        *)
(* formatting a number (.astype(str)) and the Integer column reading it    *)
(* back are computed, digit by digit.                                      *)
(***************************************************************************)
EXTENDS Integers, Sequences, FiniteSets, TLC

VARIABLES
    table,        \* committed rows of annual_production_data, in storage order
    session,      \* db.session: the uncommitted view of the table, if any
    pc,           \* position of the load-data command
    file,         \* the spreadsheet given to the running load-data command
    grouped_df,   \* grouped_df of load_data
    new_entries,  \* new_entries of load_data
    resp,         \* the last answer of GET /data
    runs,         \* number of load-data runs started
    tableBefore,  \* history: the committed table when the current run started
    fault         \* history: the store has refused a statement in some run

vars == <<table, session, pc, file, grouped_df, new_entries, resp, runs,
          tableBefore, fault>>

-----------------------------------------------------------------------------
(* Bounds *)

MaxRows == 3      \* rows of a generated sheet (aggregation specification)
MaxVal == 1       \* the non-zero value of a measure in a generated row
MaxFileRows == 2  \* rows of a generated sheet given to load-data
MaxRuns == 3      \* load-data runs in one behaviour

-----------------------------------------------------------------------------
(* Text *)

Digits == <<"0", "1", "2", "3", "4", "5", "6", "7", "8", "9">>

\* ASCII order of the characters used in well identifiers
Chars == <<"-", "0", "1", "2", "3", "4", "5", "6", "7", "8", "9", "A", "B">>

Code(c) == CHOOSE i \in 1..Len(Chars) : Chars[i] = c

RECURSIVE LexLess(_, _)
LexLess(a, b) ==
    IF Len(b) = 0 THEN FALSE
    ELSE IF Len(a) = 0 THEN TRUE
    ELSE IF Code(Head(a)) # Code(Head(b)) THEN Code(Head(a)) < Code(Head(b))
    ELSE LexLess(Tail(a), Tail(b))

\* numpy.int64.astype(str): the decimal digits of a non-negative integer
RECURSIVE Str(_)
Str(n) ==
    IF n < 10 THEN <<Digits[n + 1]>>
    ELSE Str(n \div 10) \o <<Digits[(n % 10) + 1]>>

DigitVal(c) == CHOOSE d \in 0..9 : Digits[d + 1] = c

\* db.Integer column: decimal text bound to an integer column is stored as
\* the integer it denotes
RECURSIVE ToInt(_)
ToInt(s) ==
    IF Len(s) = 0 THEN 0
    ELSE 10 * ToInt(SubSeq(s, 1, Len(s) - 1)) + DigitVal(s[Len(s)])

-----------------------------------------------------------------------------
(* Spreadsheet cells and frames *)

\* a cell of the "API WELL  NUMBER" column: numpy.int64 or a Python str
IntCell(n) == [kind |-> "int64", n |-> n, s |-> <<>>]
StrCell(s) == [kind |-> "str", n |-> 0, s |-> s]

CellLess(a, b) ==
    IF a.kind = "int64" THEN a.n < b.n ELSE LexLess(a.s, b.s)

WELL == "API WELL  NUMBER"
RequiredColumns == {WELL, "OIL", "GAS", "BRINE"}

\* the columns summed by .agg({"OIL": "sum", "GAS": "sum", "BRINE": "sum"})
Field(row, col) ==
    CASE col = "OIL" -> row.oil
      [] col = "GAS" -> row.gas
      [] col = "BRINE" -> row.brine

-----------------------------------------------------------------------------
(* df.groupby("API WELL  NUMBER").agg(sum).reset_index() *)

\* the group keys: the distinct values of the key column
GroupKeys(rows) == {rows[i].well : i \in 1..Len(rows)}

\* groupby sorts the group keys (sort=True is the default)
RECURSIVE SortCells(_)
SortCells(S) ==
    IF S = {} THEN <<>>
    ELSE LET m == CHOOSE x \in S : \A y \in S \ {x} : CellLess(x, y)
         IN <<m>> \o SortCells(S \ {m})

\* a bug: the last row of a group overwrites the total instead of adding to it
RECURSIVE GroupSumOverwrite(_, _, _)
GroupSumOverwrite(rows, w, col) ==
    IF Len(rows) = 0 THEN 0
    ELSE IF rows[Len(rows)].well = w THEN Field(rows[Len(rows)], col)
    ELSE GroupSumOverwrite(SubSeq(rows, 1, Len(rows) - 1), w, col)

\* "sum" over the rows of group w, accumulated in row order
RECURSIVE GroupSum(_, _, _)
GroupSum(rows, w, col) ==
    IF Len(rows) = 0 THEN 0
    ELSE GroupSum(SubSeq(rows, 1, Len(rows) - 1), w, col)
         + (IF rows[Len(rows)].well = w THEN Field(rows[Len(rows)], col) ELSE 0)

\* a bug: no grouping, one output row per input row
AggregateUngrouped(rows) == rows

Aggregate(rows) ==
    LET keys == SortCells(GroupKeys(rows))
    IN [i \in 1..Len(keys) |->
           [well |-> keys[i],
            oil |-> GroupSum(rows, keys[i], "OIL"),
            gas |-> GroupSum(rows, keys[i], "GAS"),
            brine |-> GroupSum(rows, keys[i], "BRINE")]]

-----------------------------------------------------------------------------
(* Inputs *)

IntWells == {7, 12}
StrWells == {<<"A">>, <<"B">>}

\* the OIL, GAS and BRINE cells of a generated row: each 0 or MaxVal
Measures == [oil : {0, MaxVal}, gas : {0, MaxVal}, brine : {0, MaxVal}]

Row(c, o, g, b) == [well |-> c, oil |-> o, gas |-> g, brine |-> b]

RowsOf(cells) == {Row(c, m.oil, m.gas, m.brine) : c \in cells, m \in Measures}

SeqsUpTo(S, n) == UNION {[1..k -> S] : k \in 0..n}

IntCells == {IntCell(n) : n \in IntWells}
StrCells == {StrCell(s) : s \in StrWells}

\* a key column holds numbers (dtype int64) or text (dtype object)
Frames(n) == SeqsUpTo(RowsOf(IntCells), n) \cup SeqsUpTo(RowsOf(StrCells), n)

\* the grouping example of the specification, with text and with numeric keys
ExampleText ==
    <<Row(StrCell(<<"A">>), 1, 2, 3), Row(StrCell(<<"A">>), 4, 5, 6),
      Row(StrCell(<<"B">>), 7, 8, 9)>>
ExampleNumeric ==
    <<Row(IntCell(7), 1, 2, 3), Row(IntCell(7), 4, 5, 6),
      Row(IntCell(12), 7, 8, 9)>>

\* the query example of the specification: well "42-001-12345"
Well42 == <<"4", "2", "-", "0", "0", "1", "-", "1", "2", "3", "4", "5">>
Example42 ==
    <<Row(StrCell(Well42), 40, 80, 120), Row(StrCell(Well42), 60, 120, 180)>>

\* a path that pd.read_excel cannot open
NoFile == [exists |-> FALSE, columns |-> {}, rows |-> <<>>]

Sheet(cs, r) == [exists |-> TRUE, columns |-> cs, rows |-> r]

\* sheets given to load-data: every key column of up to MaxFileRows rows,
\* the specification's examples, and sheets that lack a required column
FileMeasures == {<<1, 2, 3>>}

FileRows(cells) == {Row(c, m[1], m[2], m[3]) : c \in cells, m \in FileMeasures}

FileFrames ==
    SeqsUpTo(FileRows(IntCells), MaxFileRows)
    \cup SeqsUpTo(FileRows(StrCells), MaxFileRows)
    \cup {ExampleNumeric, Example42}

Files ==
    {NoFile}
    \cup {Sheet(RequiredColumns, r) : r \in FileFrames}
    \cup {Sheet(RequiredColumns \ {c}, r) :
             c \in {"GAS", WELL}, r \in {<<>>, ExampleNumeric}}

-----------------------------------------------------------------------------
(* load_data: the steps of the command *)

NoSession == [active |-> FALSE, view |-> <<>>]

\* a bug: only the group key is looked up, a missing summed column is ignored
HasKeyColumn(f) == WELL \in f.columns

\* groupby raises KeyError without the key column, agg without a summed one
HasColumns(f) == RequiredColumns \subseteq f.columns

\* a bug: the overwrite flag left off, nothing is deleted
DeleteNothing(t) == t

\* db.session.query(AnnualProductionData).delete()
DeleteAllRows(t) == <<>>

\* row["API WELL  NUMBER"].astype(str): numpy.int64 has astype, a Python str
\* (a cell of an object column) has not and raises AttributeError
CanConvert(row) == row.well.kind = "int64"

NewEntry(row) ==
    [api_well_number |-> Str(row.well.n),
     oil |-> Str(row.oil),
     gas |-> Str(row.gas),
     brine |-> Str(row.brine)]

\* the row as the table keeps it: text in the String column, integers in the
\* Integer columns; the surrogate id is the row's position in the table
StoredRow(e) ==
    [api_well_number |-> e.api_well_number,
     oil |-> ToInt(e.oil),
     gas |-> ToInt(e.gas),
     brine |-> ToInt(e.brine)]

StoredRows(entries) == [i \in 1..Len(entries) |-> StoredRow(entries[i])]

Raise ==
    /\ pc' = "failed"
    /\ session' = NoSession

StartLoad(f) ==
    /\ pc = "idle"
    /\ runs < MaxRuns
    /\ pc' = "read"
    /\ file' = f
    /\ runs' = runs + 1
    /\ tableBefore' = table
    /\ grouped_df' = <<>>
    /\ new_entries' = <<>>
    /\ UNCHANGED <<table, session, resp, fault>>

ReadExcel ==
    /\ pc = "read"
    /\ pc' = IF file.exists THEN "group" ELSE "failed"
    /\ UNCHANGED <<table, session, file, grouped_df, new_entries, resp, runs,
                   tableBefore, fault>>

GroupBy ==
    /\ pc = "group"
    /\ IF HasColumns(file)
       THEN /\ grouped_df' = Aggregate(file.rows)
            /\ pc' = "delete"
       ELSE /\ pc' = "failed"
            /\ UNCHANGED grouped_df
    /\ UNCHANGED <<table, session, file, new_entries, resp, runs, tableBefore,
                   fault>>

DeleteRows ==
    /\ pc = "delete"
    /\ \E ok \in BOOLEAN :
          IF ok
          THEN /\ session' = [active |-> TRUE, view |-> DeleteAllRows(table)]
               /\ pc' = "commit_delete"
               /\ UNCHANGED fault
          ELSE /\ Raise
               /\ fault' = TRUE
    /\ UNCHANGED <<table, file, grouped_df, new_entries, resp, runs,
                   tableBefore>>

CommitDelete ==
    /\ pc = "commit_delete"
    /\ \E ok \in BOOLEAN :
          IF ok
          THEN /\ table' = session.view
               /\ session' = NoSession
               /\ pc' = "convert"
               /\ UNCHANGED fault
          ELSE /\ Raise
               /\ fault' = TRUE
               /\ UNCHANGED table
    /\ UNCHANGED <<file, grouped_df, new_entries, resp, runs, tableBefore>>

Convert ==
    /\ pc = "convert"
    /\ IF \A i \in 1..Len(grouped_df) : CanConvert(grouped_df[i])
       THEN /\ new_entries' =
                  [i \in 1..Len(grouped_df) |-> NewEntry(grouped_df[i])]
            /\ pc' = "insert"
       ELSE /\ pc' = "failed"
            /\ UNCHANGED new_entries
    /\ UNCHANGED <<table, session, file, grouped_df, resp, runs, tableBefore,
                   fault>>

BulkSave ==
    /\ pc = "insert"
    /\ \E ok \in BOOLEAN :
          IF ok
          THEN /\ session' =
                     [active |-> TRUE, view |-> table \o StoredRows(new_entries)]
               /\ pc' = "commit_insert"
               /\ UNCHANGED fault
          ELSE /\ Raise
               /\ fault' = TRUE
    /\ UNCHANGED <<table, file, grouped_df, new_entries, resp, runs,
                   tableBefore>>

CommitInsert ==
    /\ pc = "commit_insert"
    /\ \E ok \in BOOLEAN :
          IF ok
          THEN /\ table' = session.view
               /\ session' = NoSession
               /\ pc' = "done"
               /\ UNCHANGED fault
          ELSE /\ Raise
               /\ fault' = TRUE
               /\ UNCHANGED table
    /\ UNCHANGED <<file, grouped_df, new_entries, resp, runs, tableBefore>>

\* the command's process ends: with "New data inserted successfully" or with
\* the exception raised again
Exit ==
    /\ pc \in {"done", "failed"}
    /\ pc' = "idle"
    /\ session' = NoSession
    /\ UNCHANGED <<table, file, grouped_df, new_entries, resp, runs,
                   tableBefore, fault>>

-----------------------------------------------------------------------------
(* get_annual_data: GET /data *)

Absent == [present |-> FALSE, value |-> <<>>]
Given(w) == [present |-> TRUE, value |-> w]

\* a bug: only a missing parameter is refused, an empty one is looked up
WellIsNone(req) == ~req.present

\* not api_well_number: None or ""
MissingWell(req) == ~req.present \/ req.value = <<>>

\* a bug: identifiers normalised before the comparison, "07" finds the row
\* of "7"
FirstIndexNormalised(t, w) ==
    LET n == IF Len(w) > 1 /\ Head(w) = "0" THEN Tail(w) ELSE w
        hits == {i \in 1..Len(t) : t[i].api_well_number = n}
    IN IF hits = {} THEN 0 ELSE CHOOSE i \in hits : \A j \in hits : i <= j

\* filter_by(api_well_number=w).first(): the position of the first row whose
\* identifier equals w, 0 for None
FirstIndex(t, w) ==
    LET hits == {i \in 1..Len(t) : t[i].api_well_number = w}
    IN IF hits = {} THEN 0 ELSE CHOOSE i \in hits : \A j \in hits : i <= j

NoResponse ==
    [status |-> 0, error |-> <<>>, oil |-> 0, gas |-> 0, brine |-> 0,
     lookups |-> 0]

Response(t, req) ==
    IF MissingWell(req)
    THEN [status |-> 400, error |-> <<"Well number is required">>,
          oil |-> 0, gas |-> 0, brine |-> 0, lookups |-> 0]
    ELSE LET i == FirstIndex(t, req.value)
         IN IF i = 0
            THEN [status |-> 404,
                  error |-> <<"No data found for API WELL NUMBER ">>
                            \o req.value,
                  oil |-> 0, gas |-> 0, brine |-> 0, lookups |-> 1]
            ELSE [status |-> 200, error |-> <<>>,
                  oil |-> t[i].oil, gas |-> t[i].gas, brine |-> t[i].brine,
                  lookups |-> 1]

Requests ==
    {Absent} \cup
    {Given(w) : w \in {<<>>, <<"7">>, <<"1", "2">>, <<"0", "7">>, <<"A">>,
                       Well42}}

GetData(req) ==
    /\ resp' = Response(table, req)
    /\ UNCHANGED <<table, session, pc, file, grouped_df, new_entries, runs,
                   tableBefore, fault>>

-----------------------------------------------------------------------------
(* Specifications *)

Init ==
    /\ table = <<>>
    /\ session = NoSession
    /\ pc = "idle"
    /\ file = NoFile
    /\ grouped_df = <<>>
    /\ new_entries = <<>>
    /\ resp = NoResponse
    /\ runs = 0
    /\ tableBefore = <<>>
    /\ fault = FALSE

Next ==
    \/ \E f \in Files : StartLoad(f)
    \/ ReadExcel
    \/ GroupBy
    \/ DeleteRows
    \/ CommitDelete
    \/ Convert
    \/ BulkSave
    \/ CommitInsert
    \/ Exit
    \/ \E req \in Requests : GetData(req)

Spec == Init /\ [][Next]_vars

\* the table a successful load of a sheet's rows leaves behind
LoadedTable(rows) ==
    LET g == Aggregate(rows)
    IN StoredRows([i \in 1..Len(g) |-> NewEntry(g[i])])

\* the same sheet loaded again and again, starting from a table that an
\* earlier load left behind
InitTwice ==
    /\ table \in {LoadedTable(r) :
                     r \in SeqsUpTo(FileRows(IntCells), MaxFileRows)
                           \cup {ExampleNumeric}}
    /\ file \in Files
    /\ session = NoSession
    /\ pc = "idle"
    /\ grouped_df = <<>>
    /\ new_entries = <<>>
    /\ resp = NoResponse
    /\ runs = 0
    /\ tableBefore = <<>>
    /\ fault = FALSE

Reload == StartLoad(file)

NextTwice ==
    \/ Reload
    \/ ReadExcel
    \/ GroupBy
    \/ DeleteRows
    \/ CommitDelete
    \/ Convert
    \/ BulkSave
    \/ CommitInsert
    \/ Exit

SpecTwice == InitTwice /\ [][NextTwice]_vars

\* the aggregation step alone, on every sheet of up to MaxRows rows
InitAgg ==
    /\ file \in {Sheet(RequiredColumns, r) :
                    r \in Frames(MaxRows) \cup {ExampleText, ExampleNumeric}}
    /\ pc = "group"
    /\ table = <<>>
    /\ session = NoSession
    /\ grouped_df = <<>>
    /\ new_entries = <<>>
    /\ resp = NoResponse
    /\ runs = 1
    /\ tableBefore = <<>>
    /\ fault = FALSE

NextAgg == GroupBy

SpecAgg == InitAgg /\ [][NextAgg]_vars

-----------------------------------------------------------------------------
(* Properties *)

Running == pc # "idle"
Ended == pc \in {"done", "failed"}

AllColumns(f) == \A c \in RequiredColumns : c \in f.columns

\* the well identifier of a key cell as text
KeyText(c) == IF c.kind = "int64" THEN Str(c.n) ELSE c.s

KeysOf(rows) == {rows[i].well : i \in 1..Len(rows)}

\* the sum of a column over a set of row positions
RECURSIVE TotalOver(_, _, _)
TotalOver(S, rows, col) ==
    IF S = {} THEN 0
    ELSE LET i == CHOOSE j \in S : TRUE
         IN (CASE col = "OIL" -> rows[i].oil
               [] col = "GAS" -> rows[i].gas
               [] col = "BRINE" -> rows[i].brine)
            + TotalOver(S \ {i}, rows, col)

RowsWith(rows, w) == {i \in 1..Len(rows) : rows[i].well = w}

Perms(n) ==
    {p \in [1..n -> 1..n] : \A i, j \in 1..n : i # j => p[i] # p[j]}

\* the permutations of 1..n for every sheet length of the aggregation runs
PermsUpTo == [n \in 0..MaxRows |-> Perms(n)]

Permuted(rows, p) == [i \in 1..Len(rows) |-> rows[p[i]]]

Range(q) == {q[i] : i \in 1..Len(q)}

\* the table the run should leave when it succeeds
NewBatch(f) ==
    [i \in 1..Len(Aggregate(f.rows)) |->
        LET g == Aggregate(f.rows)[i]
        IN [api_well_number |-> KeyText(g.well),
            oil |-> g.oil, gas |-> g.gas, brine |-> g.brine]]

\* C1: a load-data run that fails at any step leaves the stored table as it
\* was before the run.
C1_FailedRunLeavesTable == pc = "failed" => table = tableBefore

\* C2: a GET /data answered while load-data runs is the answer the table
\* before the run gives or the answer the complete new batch gives.
C2_ReaderSeesOldOrNew ==
    [][\A req \in Requests :
          (Running /\ GetData(req)) =>
              resp' \in {Response(tableBefore, req),
                         Response(NewBatch(file), req)}]_vars

\* C3: the aggregation yields exactly one total per distinct well identifier
\* of the input, each of oil, gas and brine being the sum over the input rows
\* with that identifier, and yields the same totals for every permutation of
\* the input rows.
C3_AggregationExactSums ==
    pc = "delete" =>
        LET rows == file.rows
        IN /\ \A w \in KeysOf(rows) :
                /\ Cardinality({i \in 1..Len(grouped_df) :
                                   grouped_df[i].well = w}) = 1
                /\ \A i \in 1..Len(grouped_df) :
                      grouped_df[i].well = w =>
                         /\ grouped_df[i].oil
                               = TotalOver(RowsWith(rows, w), rows, "OIL")
                         /\ grouped_df[i].gas
                               = TotalOver(RowsWith(rows, w), rows, "GAS")
                         /\ grouped_df[i].brine
                               = TotalOver(RowsWith(rows, w), rows, "BRINE")
           /\ \A i \in 1..Len(grouped_df) : grouped_df[i].well \in KeysOf(rows)
           /\ \A p \in PermsUpTo[Len(rows)] :
                 Range(Aggregate(Permuted(rows, p))) = Range(grouped_df)

\* C3 witness: the specification's example [(A,1,2,3),(A,4,5,6),(B,7,8,9)]
\* aggregated to {(A,5,7,9),(B,7,8,9)}
C3_Witness ==
    /\ pc = "delete"
    /\ file.rows = ExampleText
    /\ Range(grouped_df) = {Row(StrCell(<<"A">>), 5, 7, 9),
                            Row(StrCell(<<"B">>), 7, 8, 9)}

\* C4: after a successful load-data run, a lookup of any well identifier that
\* is not in the new batch answers 404, also when a row for it was stored
\* before the run.
C4_NoOldRowSurvives ==
    pc = "done" =>
        \A w \in {r.value : r \in Requests}
                 \cup {tableBefore[i].api_well_number :
                          i \in 1..Len(tableBefore)} :
            (w # <<>> /\ w \notin {KeyText(k) : k \in KeysOf(file.rows)})
                => Response(table, Given(w)).status = 404

C4_Witness ==
    /\ pc = "done"
    /\ \E i \in 1..Len(tableBefore) :
          /\ tableBefore[i].api_well_number
                \notin {KeyText(k) : k \in KeysOf(file.rows)}
          /\ Response(table, Given(tableBefore[i].api_well_number)).status
                = 404
    /\ Len(table) > 0

\* C5: loading the same file again leaves the stored rows that loading it
\* once left, whatever the table held at first (the store accepting every
\* statement).
C5_ReloadSameRows ==
    (runs >= 2 /\ Ended /\ ~fault) => table = tableBefore

C5_Witness ==
    /\ runs = 2
    /\ pc = "done"
    /\ ~fault
    /\ Len(table) = 2
    /\ table = tableBefore

\* C6: a sheet that lacks one of the four required columns makes load-data
\* fail before any delete or insert is issued, the table being unchanged.
C6_MissingColumnTouchesNothing ==
    (Running /\ file.exists /\ ~AllColumns(file)) =>
        /\ pc \in {"read", "group", "failed"}
        /\ table = tableBefore
        /\ ~session.active

C6_Witness ==
    /\ pc = "failed"
    /\ file.exists
    /\ "GAS" \notin file.columns
    /\ Len(file.rows) > 0
    /\ Len(table) > 0
    /\ table = tableBefore

\* C7: for a sheet with the four required columns and every well identifier w
\* in it, text identifiers included, load-data followed by GET /data?well=w
\* answers 200 with the sums of w as numbers.
C7_LoadThenFound ==
    (Ended /\ ~fault /\ file.exists /\ AllColumns(file)) =>
        \A w \in KeysOf(file.rows) :
            LET r == Response(table, Given(KeyText(w)))
                S == RowsWith(file.rows, w)
            IN /\ r.status = 200
               /\ r.oil = TotalOver(S, file.rows, "OIL")
               /\ r.gas = TotalOver(S, file.rows, "GAS")
               /\ r.brine = TotalOver(S, file.rows, "BRINE")

\* C8: GET /data answers 400 "Well number is required" exactly when `well` is
\* absent or empty, whatever the table holds, and then without a lookup.
C8_MissingParameter ==
    [][\A req \in Requests :
          GetData(req) =>
             /\ resp'.status = 400 <=> (~req.present \/ req.value = <<>>)
             /\ resp'.status = 400 =>
                   /\ resp'.error = <<"Well number is required">>
                   /\ resp'.lookups = 0]_vars

C8_Witness ==
    /\ resp.status = 400
    /\ resp.lookups = 0
    /\ Len(table) > 0

\* C9: GET /data?well=W with a non-empty W answers 404 "No data found for API
\* WELL NUMBER W" exactly when no stored row's identifier is W, character for
\* character; 404 is never the answer to a missing parameter.
C9_NotFound ==
    [][\A req \in Requests :
          GetData(req) =>
             /\ resp'.status = 404 <=>
                   /\ req.present
                   /\ req.value # <<>>
                   /\ \A i \in 1..Len(table) :
                         table[i].api_well_number # req.value
             /\ resp'.status = 404 =>
                   resp'.error
                      = <<"No data found for API WELL NUMBER ">> \o req.value]_vars

\* C9 witness: "07" is not found while the row of "7" is stored
C9_Witness ==
    /\ resp.status = 404
    /\ resp.error = <<"No data found for API WELL NUMBER ", "0", "7">>
    /\ \E i \in 1..Len(table) : table[i].api_well_number = <<"7">>

\* C10: after any sequence of load-data runs from an empty table, the table
\* holds at most one row per well identifier.
C10_OneRowPerWell ==
    \A i, j \in 1..Len(table) :
        table[i].api_well_number = table[j].api_well_number => i = j

C10_Witness ==
    /\ runs >= 2
    /\ pc = "done"
    /\ Len(table) = 2
    /\ \E i, j \in 1..Len(file.rows) :
          i # j /\ file.rows[i].well = file.rows[j].well

====
